---- MODULE Spec2Model ----
(***************************************************************************)
(* Model of coronavirus.py: one run of main(), which scrapes the pandemic  *)
(* table, joins every accepted country with its population and its first   *)
(* paragraph, and writes the summary file.                                  *)
(*                                                                         *)
(* Text is a sequence of one-character strings, so that lower-casing,      *)
(* regular-expression matching, integer parsing and thousands formatting   *)
(* are computed rather than assumed.  A float with one decimal place is    *)
(* the integer number of its tenths (0.8 is 8, -3.0 is -30).  Python's     *)
(* None is the string "None", which is no sequence of characters.          *)
(*                                                                         *)
(* Search terms and country names are literal characters (no regular-      *)
(* expression metacharacters), every anchor of the tables is followed by   *)
(* the td cells the code reads, and a failing request is the URLError that *)
(* read_url catches.                                                       *)
(***************************************************************************)
EXTENDS Integers, Sequences, FiniteSets, TLC

VARIABLES
    pc,               \* position of the run
    search_term,      \* main: the term typed at the prompt
    population_doc,   \* the anchors of the first table of the population page
    files,            \* the file system: file name -> contents
    countries_links,  \* country_coronavirus_stats: table.find_all('a', string=regex)
    i,                \* index of the loop over countries_links (1-based)
    countries,        \* the dict: a sequence of <<key, value>> in insertion order
    err,              \* the uncaught exception that ended the run, if any
    stdout,           \* what print() wrote, in order
    requests,         \* the urls handed to read_url, in order
    call_args,        \* arguments of a function applied on its own
    call_result       \* what that application returned or raised

vars == <<pc, search_term, population_doc, files, countries_links, i,
          countries, err, stdout, requests, call_args, call_result>>

\* None; as a value among texts it is <<None>>, which is no text
None == "None"

\* ------------------------------------------------------------------ bounds
\* anchors of the pandemic table that match the search term
MaxAnchors == 3
\* <p> elements of a page handed to get_first_paragraph on its own
MaxParas == 3
\* largest stat handed to calculate_per_100000_stat on its own
MaxStat == 9

\* -------------------------------------------------------------------- text
Digits == <<"0", "1", "2", "3", "4", "5", "6", "7", "8", "9">>

\* str.lower() on one character
LowerChar(c) ==
    CASE c = "A" -> "a"
      [] c = "B" -> "b"
      [] c = "C" -> "c"
      [] OTHER -> c

\* str.lower()
Lower(s) == [k \in 1..Len(s) |-> LowerChar(s[k])]

\* re.compile(pattern, re.IGNORECASE).search(text) for a pattern of literal
\* characters: the pattern occurs somewhere in the text, case ignored
RegexSearch(pattern, text) ==
    \E k \in 0..(Len(text) - Len(pattern)) :
        SubSeq(Lower(text), k + 1, k + Len(pattern)) = Lower(pattern)

\* str.startswith(prefix)
StartsWith(s, prefix) ==
    /\ Len(s) >= Len(prefix)
    /\ SubSeq(s, 1, Len(prefix)) = prefix

\* str.replace(",", "")
RECURSIVE StripCommas(_)
StripCommas(s) ==
    IF s = <<>> THEN <<>>
    ELSE IF Head(s) = "," THEN StripCommas(Tail(s))
    ELSE <<Head(s)>> \o StripCommas(Tail(s))

DigitValue(c) == CHOOSE d \in 0..9 : Digits[d + 1] = c

IsDigit(c) == \E d \in 1..10 : Digits[d] = c

RECURSIVE DigitsValue(_)
DigitsValue(s) ==
    IF s = <<>> THEN 0
    ELSE DigitsValue(SubSeq(s, 1, Len(s) - 1)) * 10 + DigitValue(s[Len(s)])

\* int(text) raises ValueError unless text is an optional sign and digits
IsIntLiteral(s) ==
    LET body == IF s # <<>> /\ Head(s) = "-" THEN Tail(s) ELSE s
    IN  /\ body # <<>>
        /\ \A k \in 1..Len(body) : IsDigit(body[k])

\* int(text) on an integer literal
IntOf(s) ==
    IF Head(s) = "-" THEN 0 - DigitsValue(Tail(s)) ELSE DigitsValue(s)

\* int(cell.get_text().replace(",", "")): the number, or the exception
ParseCell(text) ==
    LET s == StripCommas(text)
    IN  IF IsIntLiteral(s) THEN [ok |-> TRUE, value |-> IntOf(s)]
        ELSE [ok |-> FALSE, value |-> "ValueError"]

RECURSIVE NatDigits(_)
NatDigits(n) ==
    IF n < 10 THEN <<Digits[n + 1]>>
    ELSE NatDigits(n \div 10) \o <<Digits[(n % 10) + 1]>>

\* a comma before every group of three digits counted from the right
RECURSIVE GroupThousands(_)
GroupThousands(d) ==
    IF Len(d) <= 3 THEN d
    ELSE GroupThousands(SubSeq(d, 1, Len(d) - 3)) \o <<",">>
             \o SubSeq(d, Len(d) - 2, Len(d))

\* f'{n:,}'
FormatThousands(n) ==
    IF n < 0 THEN <<"-">> \o GroupThousands(NatDigits(0 - n))
    ELSE GroupThousands(NatDigits(n))

\* ------------------------------------------------- calculate_per_100000_stat
PerPopulation == 100000

\* the odd n below 40, no multiple of 5, whose double n/20 lies above n/20:
\* round(n/20, 1) rounds those up and the others down
HalfwayAbove == {1, 9, 11, 13, 21, 27, 31, 37}

\* int(x * 10) / 10 in place of round(x, 1): the tenths are cut, not rounded
RoundTenths_truncated(num, den) == num \div den

\* round(num/den, 1) in tenths, for num >= 0 and den > 0 given in tenths
\* (the rate is (num/den)/10): to the nearest tenth; a rate exactly halfway
\* is decided by its double, which is exact for a multiple of 1/4 (round
\* half to even) and otherwise lies on one side of the halfway point
RoundTenths(num, den) ==
    LET q == num \div den
        r == num % den
        n == 2 * q + 1
    IN  IF 2 * r < den THEN q
        ELSE IF 2 * r > den THEN q + 1
        ELSE IF n % 5 = 0 THEN (IF q % 2 = 0 THEN q ELSE q + 1)
        ELSE CASE n < 40 -> (IF n \in HalfwayAbove THEN q + 1 ELSE q)

Abs(x) == IF x < 0 THEN 0 - x ELSE x

\* calculate_per_100000_stat(population, stat): the rate in tenths, or the
\* exception the float division by population / 100000 = 0.0 raises
calculate_per_100000_stat(population, stat) ==
    IF stat = 0 THEN [ok |-> TRUE, value |-> 0]
    ELSE IF population = 0
    THEN [ok |-> FALSE, value |-> "ZeroDivisionError"]
    ELSE LET t == RoundTenths(Abs(stat) * 10 * PerPopulation, Abs(population))
         IN  [ok |-> TRUE,
              value |-> IF (stat < 0) = (population < 0) THEN t ELSE 0 - t]

\* ------------------------------------------------------------------ read_url
URLError == "URLError"

\* what the network answers to a request: a document, or a URLError
Response(doc) == [status |-> "ok", doc |-> doc]

FailedResponse == [status |-> URLError, doc |-> <<>>]

\* read_url(url): the parsed document, or None after the except branch has
\* printed 'Error opening url' (the print is in the actions)
read_url(response) ==
    IF response.status = URLError THEN [is_none |-> TRUE, doc |-> <<>>]
    ELSE [is_none |-> FALSE, doc |-> response.doc]

\* ------------------------------------------------------- get_first_paragraph
\* re.match(r'..*\n', text): a first character that is no newline, any
\* further characters that are no newline, then a newline
MatchesPattern(text) ==
    \E k \in 1..(Len(text) - 1) :
        /\ \A j \in 1..k : text[j] # "\n"
        /\ text[k + 1] = "\n"

RECURSIVE FirstMatching(_)
FirstMatching(p_tags) ==
    IF p_tags = <<>> THEN <<None>>
    ELSE IF MatchesPattern(Head(p_tags)) THEN Head(p_tags)
    ELSE FirstMatching(Tail(p_tags))

\* get_first_paragraph, given what read_url returned: the text of the first
\* <p> the pattern matches, None when the loop falls through, or the
\* TypeError of calling None
get_first_paragraph(soup) ==
    IF soup.is_none THEN [ok |-> FALSE, value |-> "TypeError"]
    ELSE [ok |-> TRUE, value |-> FirstMatching(soup.doc)]

\* ------------------------------------------------------------ get_population
\* get_population(country), given what read_url returned (the anchors of
\* the first table, each with the text of the td that follows it): the
\* population of the first anchor the country matches, or the exception
get_population(country, soup) ==
    IF soup.is_none THEN [ok |-> FALSE, value |-> "TypeError"]
    ELSE LET table == soup.doc
             country_row ==
                 SelectSeq(table, LAMBDA a : RegexSearch(country, a.text))
         IN  IF country_row = <<>>
             THEN [ok |-> FALSE, value |-> "IndexError"]
             ELSE ParseCell(country_row[1].td)

\* ------------------------------------------------------------------ the dict
DictKeys(d) == [k \in 1..Len(d) |-> d[k][1]]

HasKey(d, key) == \E k \in 1..Len(d) : d[k][1] = key

DictGet(d, key) == d[CHOOSE k \in 1..Len(d) : d[k][1] = key][2]

\* d.pop(key, None) before d[key] = value: the key moves to the end
DictSet_moves_key(d, key, value) ==
    Append(SelectSeq(d, LAMBDA e : e[1] # key), <<key, value>>)

\* d.setdefault(key, value): a key already there keeps its value
DictSet_keeps_first(d, key, value) ==
    IF HasKey(d, key) THEN d ELSE Append(d, <<key, value>>)

\* d[key] = value: a new key goes last, a key already there keeps its place
\* and takes the new value
DictSet(d, key, value) ==
    IF HasKey(d, key)
    THEN [k \in 1..Len(d) |-> IF d[k][1] = key THEN <<key, value>> ELSE d[k]]
    ELSE Append(d, <<key, value>>)

\* ------------------------------------------------------------------ the web
WikipediaBase == <<"https://en.wikipedia.org">>

PandemicUrl ==
    WikipediaBase \o <<"/wiki/",
        "2019%E2%80%9320_coronavirus_pandemic_by_country_and_territory">>

PopulationUrl ==
    WikipediaBase \o <<"/wiki/",
        "List_of_countries_and_dependencies_by_population">>

\* the href prefix of a country's page, as the path's leading segments
CountryPrefix == <<"/wiki/", "2020_coronavirus_pandemic_in_">>

\* urllib.parse.urljoin("https://en.wikipedia.org", href), href an absolute path
urljoin(base, href) == base \o href

Anchor(text, href, cases, deaths) ==
    [text |-> text, href |-> href, cases |-> cases, deaths |-> deaths]

\* anchors the pandemic table may hold: country rows (two of them under the
\* same name), a continent link, an anchor with no href, a row whose cell
\* is no number
PandemicAnchors ==
    { Anchor(<<"A", "b">>, CountryPrefix \o <<"x">>,
             <<"1", ",", "2", "0", "0">>, <<"3">>),
      Anchor(<<"A", "b">>, CountryPrefix \o <<"y">>, <<"5">>, <<"0">>),
      Anchor(<<"B">>, CountryPrefix \o <<"y">>, <<"0">>, <<"0">>),
      Anchor(<<"C", "b">>, CountryPrefix \o <<"x">>, <<"1">>, <<"1">>),
      Anchor(<<"B">>, CountryPrefix \o <<"x">>, <<"-">>, <<"0">>),
      Anchor(<<"A", "b">>, <<"/wiki/", "Europe">>, <<"7">>, <<"0">>),
      Anchor(<<"B">>, <<None>>, <<"2">>, <<"0">>) }

SeqsUpTo(S, n) == UNION {[1..k -> S] : k \in 0..n}

SearchTerms == {<<"b">>, <<"A", "B">>, <<"C">>}

Row(text, td) == [text |-> text, td |-> td]

\* population tables: one that lacks a country, one with a zero and a
\* negative population and a cell that is no number
PopulationDocs ==
    { << Row(<<"B">>, <<"4", "0", "0", ",", "0", "0", "0">>),
         Row(<<"A", "b">>,
             <<"1", "0", ",", "0", "0", "0", ",", "0", "0", "0">>) >>,
      << Row(<<"B">>, <<"0">>),
         Row(<<"C", "b">>, <<"-", "1", "0", "0", ",", "0", "0", "0">>),
         Row(<<"A", "b">>, <<"n", "/", "a">>) >> }

\* the <p> texts of a country's page
DetailPage(link) ==
    IF link[Len(link)] = "x"
    THEN << <<"\n">>, <<"T", "\n">>, <<"U", "\n">> >>
    ELSE << <<"U">> >>

\* -------------------------------------------------------------------- files
SummarySuffix == <<"s", "u", "m", "m", "a", "r", "y", ".", "t", "x", "t">>

NoFiles == [n \in {} |-> <<>>]

\* contents of a file that was there before the run
PreExisting == <<[country |-> <<"earlier contents">>, fields |-> <<>>]>>

\* one summary_file.write(...) per country, in the dict's order
Blocks(d) == [k \in 1..Len(d) |-> [country |-> d[k][1], fields |-> d[k][2]]]

\* open(name, 'w'): a file of that name is truncated and written
create_summary_file_overwrites(term, d, fs) ==
    LET name == term \o SummarySuffix
    IN  [ok |-> TRUE, value |-> name,
         files |-> [n \in DOMAIN fs \cup {name} |->
                       IF n = name THEN Blocks(d) ELSE fs[n]]]

\* open(name, 'x'): FileExistsError when the name is taken, else the file
\* is created and the with-body writes the blocks
create_summary_file(term, d, fs) ==
    LET name == term \o SummarySuffix
    IN  IF name \in DOMAIN fs
        THEN [ok |-> FALSE, value |-> "FileExistsError", files |-> fs]
        ELSE [ok |-> TRUE, value |-> name,
              files |-> [n \in DOMAIN fs \cup {name} |->
                            IF n = name THEN Blocks(d) ELSE fs[n]]]

\* the file name main prints
printed_name(term) == Lower(term) \o SummarySuffix

ErrorLine(url) == [kind |-> "Error opening url", text |-> url]

SavedLine(name) == [kind |-> "Your data has been saved in the file", text |-> name]

\* ------------------------------------------------- country_coronavirus_stats
NoError == [type |-> None, in |-> None]

Raised(type, in) == [type |-> type, in |-> in]

\* the href test of lines 30-32: "error" when href is None (None has no
\* startswith), else whether the loop body goes on with this anchor
href_test(country) ==
    IF country.href = <<None>> THEN "error"
    ELSE IF ~StartsWith(country.href, CountryPrefix) THEN "continue"
    ELSE "accept"

\* the tuple stored under the country's name
Entry(population, cases, deaths, cases_per, deaths_per, first_paragraph) ==
    <<FormatThousands(population), FormatThousands(cases),
      FormatThousands(deaths), cases_per, deaths_per, first_paragraph>>

\* table.find_all('a', string=regex)
find_all(anchors, term) ==
    SelectSeq(anchors, LAMBDA a : RegexSearch(term, a.text))

\* read_url returning an empty document after a URLError: no anchor matches
fetch_links_empty_on_error(term, response) ==
    LET soup == read_url(response)
    IN  IF soup.is_none \/ ~soup.doc.has_table
        THEN [ok |-> TRUE, value |-> <<>>]
        ELSE [ok |-> TRUE, value |-> find_all(soup.doc.anchors, term)]

\* lines 22-27, given the answer to the request for the pandemic page whose
\* document is [has_table, anchors]: the matching anchors, or the
\* AttributeError of soup.find on None or of table.find_all on None
fetch_links(term, response) ==
    LET soup == read_url(response)
    IN  IF soup.is_none \/ ~soup.doc.has_table
        THEN [ok |-> FALSE, value |-> "AttributeError"]
        ELSE [ok |-> TRUE, value |-> find_all(soup.doc.anchors, term)]

\* one pass of the loop body (lines 29-46) over `country` with the dict `d`,
\* given the answers to the two requests it may make: the exception it
\* raised if any, the dict after it, the urls requested and the lines printed
loop_body(country, d, page_response, population_response) ==
    LET test == href_test(country)
        cases == ParseCell(country.cases)
        deaths == ParseCell(country.deaths)
        link == urljoin(WikipediaBase, country.href)
        first_paragraph == get_first_paragraph(read_url(page_response))
        page_out ==
            IF page_response.status = URLError THEN <<ErrorLine(link)>>
            ELSE <<>>
        population ==
            get_population(country.text, read_url(population_response))
        population_out ==
            IF population_response.status = URLError
            THEN <<ErrorLine(PopulationUrl)>>
            ELSE <<>>
        cases_per_100000 ==
            calculate_per_100000_stat(population.value, cases.value)
        deaths_per_100000 ==
            calculate_per_100000_stat(population.value, deaths.value)
        out(error, dict, urls, lines) ==
            [err |-> error, countries |-> dict, requests |-> urls,
             stdout |-> lines]
    IN  IF test = "error"
        THEN out(Raised("AttributeError", "country_coronavirus_stats"),
                 d, <<>>, <<>>)
        ELSE IF test = "continue" THEN out(NoError, d, <<>>, <<>>)
        ELSE IF ~cases.ok
        THEN out(Raised(cases.value, "country_coronavirus_stats"),
                 d, <<>>, <<>>)
        ELSE IF ~deaths.ok
        THEN out(Raised(deaths.value, "country_coronavirus_stats"),
                 d, <<>>, <<>>)
        ELSE IF ~first_paragraph.ok
        THEN out(Raised(first_paragraph.value, "get_first_paragraph"),
                 d, <<link>>, page_out)
        ELSE IF ~population.ok
        THEN out(Raised(population.value, "get_population"),
                 d, <<link, PopulationUrl>>, page_out \o population_out)
        ELSE IF ~cases_per_100000.ok
        THEN out(Raised(cases_per_100000.value, "calculate_per_100000_stat"),
                 d, <<link, PopulationUrl>>, page_out \o population_out)
        ELSE IF ~deaths_per_100000.ok
        THEN out(Raised(deaths_per_100000.value, "calculate_per_100000_stat"),
                 d, <<link, PopulationUrl>>, page_out \o population_out)
        ELSE out(NoError,
                 DictSet(d, country.text,
                         Entry(population.value, cases.value, deaths.value,
                               cases_per_100000.value,
                               deaths_per_100000.value,
                               first_paragraph.value)),
                 <<link, PopulationUrl>>, page_out \o population_out)

\* ------------------------------------------------------------------- the run
Init ==
    /\ pc = "start"
    /\ search_term \in SearchTerms
    /\ population_doc \in PopulationDocs
    /\ files \in {NoFiles, [n \in {search_term \o SummarySuffix} |-> PreExisting]}
    /\ countries_links = <<>>
    /\ i = 1
    /\ countries = <<>>
    /\ err = NoError
    /\ stdout = <<>>
    /\ requests = <<>>
    /\ call_args = None
    /\ call_result = None

\* lines 22-27: the request for the pandemic page and the anchors found
FetchPandemic ==
    /\ pc = "start"
    /\ \E response \in
            {FailedResponse}
            \cup {Response([has_table |-> FALSE, anchors |-> <<>>])}
            \cup {Response([has_table |-> TRUE, anchors |-> a]) :
                     a \in SeqsUpTo(PandemicAnchors, MaxAnchors)} :
        LET r == fetch_links(search_term, response)
        IN  /\ requests' = Append(requests, PandemicUrl)
            /\ stdout' = IF response.status = URLError
                         THEN Append(stdout, ErrorLine(PandemicUrl))
                         ELSE stdout
            /\ IF r.ok
               THEN /\ countries_links' = r.value
                    /\ pc' = "loop"
                    /\ err' = err
               ELSE /\ countries_links' = countries_links
                    /\ pc' = "crashed"
                    /\ err' = Raised(r.value, "country_coronavirus_stats")
    /\ UNCHANGED <<search_term, population_doc, files, i, countries,
                   call_args, call_result>>

\* lines 29-46: one pass of the loop
LoopBody ==
    /\ pc = "loop"
    /\ i <= Len(countries_links)
    /\ \E page_ok, population_ok \in BOOLEAN :
        LET country == countries_links[i]
            page_response ==
                IF page_ok
                THEN Response(DetailPage(urljoin(WikipediaBase, country.href)))
                ELSE FailedResponse
            population_response ==
                IF population_ok THEN Response(population_doc)
                ELSE FailedResponse
            r == loop_body(country, countries, page_response,
                           population_response)
        IN  /\ requests' = requests \o r.requests
            /\ stdout' = stdout \o r.stdout
            /\ countries' = r.countries
            /\ err' = r.err
            /\ IF r.err = NoError
               THEN pc' = pc /\ i' = i + 1
               ELSE pc' = "crashed" /\ i' = i
    /\ UNCHANGED <<search_term, population_doc, files, countries_links,
                   call_args, call_result>>

\* line 48: the loop is over and create_summary_file runs
CreateSummaryFile ==
    /\ pc = "loop"
    /\ i > Len(countries_links)
    /\ LET r == create_summary_file(search_term, countries, files)
       IN  /\ files' = r.files
           /\ IF r.ok
              THEN pc' = "print" /\ err' = err
              ELSE /\ pc' = "crashed"
                   /\ err' = Raised(r.value, "create_summary_file")
    /\ UNCHANGED <<search_term, population_doc, countries_links, i, countries,
                   stdout, requests, call_args, call_result>>

\* lines 135-136: main prints the file name
MainPrint ==
    /\ pc = "print"
    /\ stdout' = Append(stdout, SavedLine(printed_name(search_term)))
    /\ pc' = "done"
    /\ UNCHANGED <<search_term, population_doc, files, countries_links, i,
                   countries, err, requests, call_args, call_result>>

Next == FetchPandemic \/ LoopBody \/ CreateSummaryFile \/ MainPrint

Spec == Init /\ [][Next]_vars

\* --------------------------------------- get_first_paragraph applied on its own
\* texts of a <p>: empty, blank, a line break first, no line break at all,
\* and two ordinary lines
ParaTexts ==
    { <<>>, <<" ", "\n">>, <<"\n", "T", "\n">>, <<"T">>, <<"T", "\n">>,
      <<"U", "\n">> }

IdleRun ==
    /\ search_term = <<>>
    /\ population_doc = <<>>
    /\ files = NoFiles
    /\ countries_links = <<>>
    /\ i = 1
    /\ countries = <<>>
    /\ err = NoError
    /\ stdout = <<>>
    /\ requests = <<>>

InitPara ==
    /\ IdleRun
    /\ pc = "get_first_paragraph"
    /\ call_args \in
           {FailedResponse}
           \cup {Response(p) : p \in SeqsUpTo(ParaTexts, MaxParas)}
    /\ call_result = None

\* lines 73-77 for the url of a country page
GetFirstParagraph ==
    /\ pc = "get_first_paragraph"
    /\ call_result' = get_first_paragraph(read_url(call_args))
    /\ requests' = Append(requests, urljoin(WikipediaBase, CountryPrefix \o <<"x">>))
    /\ stdout' = IF call_args.status = URLError
                 THEN Append(stdout, ErrorLine(requests'[1]))
                 ELSE stdout
    /\ pc' = "returned"
    /\ UNCHANGED <<search_term, population_doc, files, countries_links, i,
                   countries, err, call_args>>

NextPara == GetFirstParagraph

SpecPara == InitPara /\ [][NextPara]_vars

\* ---------------------------------- calculate_per_100000_stat applied on its own
CalcPopulations ==
    {-100000, 0, 1, 30000, 100000, 400000, 2000000, 10000000, 50000000}

InitCalc ==
    /\ IdleRun
    /\ pc = "calculate_per_100000_stat"
    /\ call_args \in [population : CalcPopulations, stat : 0..MaxStat]
    /\ call_result = None

\* lines 101-104
CalculatePer100000Stat ==
    /\ pc = "calculate_per_100000_stat"
    /\ call_result' =
           calculate_per_100000_stat(call_args.population, call_args.stat)
    /\ pc' = "returned"
    /\ UNCHANGED <<search_term, population_doc, files, countries_links, i,
                   countries, err, stdout, requests, call_args>>

NextCalc == CalculatePer100000Stat

SpecCalc == InitCalc /\ [][NextCalc]_vars

\* ===================================================================== claims
\* an anchor whose link target follows the country-page convention
Accepted(a) == a.href # <<None>> /\ StartsWith(a.href, CountryPrefix)

\* the names of the accepted anchors among `links`, in table order
AcceptedNames(links) ==
    LET acc == SelectSeq(links, Accepted)
    IN  [k \in 1..Len(acc) |-> acc[k].text]

\* a sequence of names with every repetition after the first dropped
RECURSIVE FirstAppearances(_)
FirstAppearances(names) ==
    IF names = <<>> THEN <<>>
    ELSE LET before == FirstAppearances(SubSeq(names, 1, Len(names) - 1))
             last == names[Len(names)]
         IN  IF \E k \in 1..Len(before) : before[k] = last THEN before
             ELSE Append(before, last)

\* the anchors whose pass of the loop has completed
Processed == SubSeq(countries_links, 1, i - 1)

SummaryName == search_term \o SummarySuffix

\* the record a country row yields when both of its lookups succeed
ExpectedEntry(a) ==
    LET population ==
            get_population(a.text, read_url(Response(population_doc))).value
        cases == ParseCell(a.cases).value
        deaths == ParseCell(a.deaths).value
    IN  <<FormatThousands(population), FormatThousands(cases),
          FormatThousands(deaths),
          calculate_per_100000_stat(population, cases).value,
          calculate_per_100000_stat(population, deaths).value,
          FirstMatching(DetailPage(urljoin(WikipediaBase, a.href)))>>

\* a country row that the pipeline can resolve with the documents as they are
Resolvable(a) ==
    /\ Accepted(a)
    /\ ParseCell(a.cases).ok
    /\ ParseCell(a.deaths).ok
    /\ LET population ==
               get_population(a.text, read_url(Response(population_doc)))
       IN  /\ population.ok
           /\ calculate_per_100000_stat(population.value,
                                        ParseCell(a.cases).value).ok
           /\ calculate_per_100000_stat(population.value,
                                        ParseCell(a.deaths).value).ok

Printed(line) == \E k \in 1..Len(stdout) : stdout[k] = line

\* C1: when the population lookup or the paragraph fetch fails for one
\* accepted country, the report set still holds a correctly populated record
\* for every other accepted country, those after the failing one included.
C1_Isolation ==
    (pc \in {"done", "crashed"}
        /\ err.in \in {"get_population", "get_first_paragraph"})
    => \A j \in 1..Len(countries_links) :
          (/\ j # i
           /\ Resolvable(countries_links[j])
           /\ countries_links[j].text # countries_links[i].text)
          => /\ HasKey(countries, countries_links[j].text)
             /\ \E k \in 1..Len(countries_links) :
                   /\ countries_links[k].text = countries_links[j].text
                   /\ Resolvable(countries_links[k])
                   /\ DictGet(countries, countries_links[j].text)
                          = ExpectedEntry(countries_links[k])

\* the except branch of read_url ran for one of the two reference pages
PrimaryFetchFailed ==
    Printed(ErrorLine(PandemicUrl)) \/ Printed(ErrorLine(PopulationUrl))

\* C2: once read_url has failed for the pandemic page or the population page
\* (its diagnostic is printed), the run has ended in an exception and no
\* summary file has been created or written, however many countries had been
\* processed.
C2_NoPartialOutput ==
    PrimaryFetchFailed
    => /\ pc = "crashed"
       /\ \A n \in DOMAIN files : files[n] = PreExisting

C2_Witness ==
    /\ pc = "crashed"
    /\ Printed(ErrorLine(PopulationUrl))
    /\ Len(countries) >= 1
    /\ files = NoFiles

\* C3: the keys of the report set are, in order, the names of the accepted
\* anchors processed so far in the order of their first appearance in the
\* table, and the blocks of the written file follow the same order.
C3_OrderPreserved ==
    /\ DictKeys(countries) = FirstAppearances(AcceptedNames(Processed))
    /\ pc \in {"print", "done"}
       => /\ SummaryName \in DOMAIN files
          /\ [k \in 1..Len(files[SummaryName]) |-> files[SummaryName][k].country]
                 = FirstAppearances(AcceptedNames(countries_links))

C3_Witness ==
    /\ pc = "done"
    /\ AcceptedNames(countries_links) = << <<"A", "b">>, <<"B">>, <<"A", "b">> >>
    /\ Len(files[SummaryName]) = 2

\* C4: when the run reaches create_summary_file and a file of the summary's
\* name exists, the run ends in FileExistsError and the file system is left
\* as it was.
C4_NoOverwrite ==
    [][(pc = "loop" /\ i > Len(countries_links) /\ SummaryName \in DOMAIN files)
       => (/\ pc' = "crashed"
           /\ err'.type = "FileExistsError"
           /\ files' = files)]_vars

C4_Witness ==
    /\ pc = "crashed"
    /\ err.type = "FileExistsError"
    /\ Len(countries) >= 1
    /\ files[SummaryName] = PreExisting

\* C5: a matching anchor whose href does not follow the country-page
\* convention, an anchor without href included, yields no record, triggers no
\* fetch and does not stop the loop.
C5_AnchorFilter ==
    /\ \A j \in 1..Len(countries_links) :
          ~Accepted(countries_links[j])
          => ~(pc = "crashed" /\ i = j /\ err.in = "country_coronavirus_stats")
    /\ Len(DictKeys(countries)) <= Len(SelectSeq(Processed, Accepted))
    /\ Len(requests) <= 1 + 2 * Len(SelectSeq(countries_links, Accepted))

IsBlank(text) == \A k \in 1..Len(text) : text[k] \in {" ", "\n", "\t"}

RECURSIVE FirstNonBlank(_)
FirstNonBlank(p_tags) ==
    IF p_tags = <<>> THEN <<None>>
    ELSE IF ~IsBlank(Head(p_tags)) THEN Head(p_tags)
    ELSE FirstNonBlank(Tail(p_tags))

\* C6: get_first_paragraph returns the text of the first paragraph that is
\* not purely whitespace, and None when there is none.
C6_FirstNonBlank ==
    (pc = "returned" /\ call_args.status = "ok")
    => /\ call_result.ok
       /\ call_result.value = FirstNonBlank(call_args.doc)

\* C7 as stated: for a positive population the result is 0.0 exactly when
\* stat is 0.
C7_ZeroExactlyWhenStatZero ==
    (pc = "returned" /\ call_args.population > 0)
    => /\ call_result.ok
       /\ (call_result.value = 0) <=> (call_args.stat = 0)

\* C7 as amended: for a positive population the result is 0.0 when stat is
\* 0, and for a positive stat it is non-zero whenever the rate is at least
\* 0.05 (stat * 2,000,000 >= population); below that the rounded rate may be
\* 0.0 as well.
C7_ZeroWhenStatZero ==
    (pc = "returned" /\ call_args.population > 0)
    => /\ call_result.ok
       /\ call_args.stat = 0 => call_result.value = 0
       /\ (call_args.stat > 0
              /\ call_args.stat * 2 * 10 * PerPopulation >= call_args.population)
          => call_result.value > 0

C7_Witness ==
    /\ pc = "returned"
    /\ call_args.population > 0
    /\ call_args.stat > 0
    /\ call_result.ok
    /\ call_result.value = 0

\* C8: for a population <= 0 calculate_per_100000_stat fails with
\* InvalidInputError, whatever the stat.
C8_RejectsNonPositivePopulation ==
    (pc = "returned" /\ call_args.population <= 0)
    => /\ ~call_result.ok
       /\ call_result.value = "InvalidInputError"

\* C9: the file name main prints on completion is the name of the file that
\* create_summary_file created.
C9_PrintedNameIsTheFile ==
    pc = "done"
    => /\ stdout[Len(stdout)].text = SummaryName
       /\ stdout[Len(stdout)].text \in DOMAIN files

\* the positions of the processed accepted anchors that carry the name `key`
Matches(key) ==
    {j \in 1..(i - 1) :
        Accepted(countries_links[j]) /\ countries_links[j].text = key}

Min(S) == CHOOSE x \in S : \A y \in S : x <= y

Max(S) == CHOOSE x \in S : \A y \in S : x >= y

UniqueKeys ==
    \A j, k \in 1..Len(countries) :
        countries[j][1] = countries[k][1] => j = k

\* C10 as stated: keys are unique and a name's record is that of the first
\* accepted anchor of that name.
C10_FirstMatchWins ==
    /\ UniqueKeys
    /\ \A k \in 1..Len(countries) :
          /\ Matches(countries[k][1]) # {}
          /\ countries[k][2]
                 = ExpectedEntry(countries_links[Min(Matches(countries[k][1]))])

\* C10 as amended: keys are unique and a name's record is that of the last
\* accepted anchor of that name processed so far.
C10_LastMatchWins ==
    /\ UniqueKeys
    /\ \A k \in 1..Len(countries) :
          /\ Matches(countries[k][1]) # {}
          /\ countries[k][2]
                 = ExpectedEntry(countries_links[Max(Matches(countries[k][1]))])

C10_Witness ==
    /\ pc = "done"
    /\ \E k \in 1..Len(countries) :
          LET m == Matches(countries[k][1])
          IN  /\ Cardinality(m) >= 2
              /\ ExpectedEntry(countries_links[Min(m)])
                     # ExpectedEntry(countries_links[Max(m)])

====
